---- MODULE Spec2Model ----
(***************************************************************************)
(* Model of the ASAT order validator (src/script/main.py).                 *)
(*                                                                         *)
(* Three specifications share this module:                                 *)
(*   SpecRules  validate_revenue_model_rules applied to bounded inputs     *)
(*   Spec       one run of validate_order; every remote call is a step     *)
(*              whose response is chosen among the shapes the gateway can  *)
(*              return                                                     *)
(*   SpecBatch  main(): process_file_parallel over a thread pool, the      *)
(*              summary, the interactive menu and the resend loop          *)
(*                                                                         *)
(* Python strings whose contents the code inspects (event types, event     *)
(* descriptions, article ids) are sequences of one-character strings.      *)
(* f-strings are sequences of their parts.  Optional values are <<>> for   *)
(* None and <<v>> for a value v.                                           *)
(***************************************************************************)
EXTENDS Integers, Sequences, FiniteSets, TLC

\* ------------------------------------------------------------------ bounds
MaxAmount == 2
MaxHist == 2
MaxSiblings == 2
MaxOrders == 3
MaxPick == 1

\* --max-workers: the size of the thread pool
max_workers == 2

\* ---------------------------------------------------------------- optionals
None == <<>>
Some(v) == <<v>>
IsNone(o) == o = <<>>
Val(o) == o[1]

\* ------------------------------------------------------------------ strings
\* s[i..j] of a sequence
Slice(s, i, j) == [k \in 1..(j - i + 1) |-> s[i + k - 1]]

\* Python: sub in s
StrContains(s, sub) ==
    \E i \in 1..(Len(s) - Len(sub) + 1) : Slice(s, i, i + Len(sub) - 1) = sub

\* Python: str.lower() on the letters the model uses
LowerChar(c) ==
    CASE c = "E" -> "e"
      [] c = "R" -> "r"
      [] c = "O" -> "o"
      [] c = "C" -> "c"
      [] OTHER -> c

\* index of the first occurrence of sub in s at or after position i, 0 if none
RECURSIVE FindFrom(_, _, _)
FindFrom(s, sub, i) ==
    IF i + Len(sub) - 1 > Len(s) THEN 0
    ELSE IF Slice(s, i, i + Len(sub) - 1) = sub THEN i
    ELSE FindFrom(s, sub, i + 1)

\* Python: s.replace(old, "") for a non-empty old
RECURSIVE StrRemoveAll(_, _)
StrRemoveAll(s, old) ==
    LET i == FindFrom(s, old, 1)
    IN IF i = 0 THEN s
       ELSE Slice(s, 1, i - 1) \o StrRemoveAll(Slice(s, i + Len(old), Len(s)), old)

\* Python: s.split(sep)[0]
SplitFirst(s, sep) ==
    LET i == FindFrom(s, sep, 1)
    IN IF i = 0 THEN s ELSE Slice(s, 1, i - 1)

\* Python: s.strip(), the model's only whitespace being the blank
RECURSIVE StrStrip(_)
StrStrip(s) ==
    IF s = <<>> THEN s
    ELSE IF Head(s) = " " THEN StrStrip(Tail(s))
    ELSE IF s[Len(s)] = " " THEN StrStrip(Slice(s, 1, Len(s) - 1))
    ELSE s

StrLower(s) == [i \in 1..Len(s) |-> LowerChar(s[i])]

\* ---------------------------------------------------- revenue model rules
RevenueModels == {"OO", "OA", "HYBRID", "SUB"}
PaymentMethods == {"Invoice", "CreditCard", "Proforma", ""}
Amounts == (0 - MaxAmount)..MaxAmount

\* validate_revenue_model_rules with the OO test written as "<= 0"
validate_revenue_model_rules_le(revenue_model, payment_method, total_charged) ==
    IF revenue_model = "OO"
    THEN IF total_charged <= 0
         THEN <<FALSE, <<"OO with totalChargedAmount = 0">>>>
         ELSE <<TRUE, <<"OO with totalChargedAmount > 0 ($", ToString(total_charged), ")">>>>
    ELSE IF revenue_model = "OA"
    THEN IF payment_method = "Invoice"
         THEN IF total_charged = 0
              THEN <<FALSE, <<"OA + Invoice with totalChargedAmount = 0">>>>
              ELSE <<TRUE, <<"OA + Invoice with totalChargedAmount > 0 ($", ToString(total_charged), ")">>>>
         ELSE <<TRUE, <<"OA + ", payment_method, " (regardless of totalChargedAmount)">>>>
    ELSE <<TRUE, <<"Revenue Model ", revenue_model>>>>

\* validate_revenue_model_rules: (can_resend, reason)
validate_revenue_model_rules(revenue_model, payment_method, total_charged) ==
    IF revenue_model = "OO"
    THEN IF total_charged = 0
         THEN <<FALSE, <<"OO with totalChargedAmount = 0">>>>
         ELSE <<TRUE, <<"OO with totalChargedAmount > 0 ($", ToString(total_charged), ")">>>>
    ELSE IF revenue_model = "OA"
    THEN IF payment_method = "Invoice"
         THEN IF total_charged = 0
              THEN <<FALSE, <<"OA + Invoice with totalChargedAmount = 0">>>>
              ELSE <<TRUE, <<"OA + Invoice with totalChargedAmount > 0 ($", ToString(total_charged), ")">>>>
         ELSE <<TRUE, <<"OA + ", payment_method, " (regardless of totalChargedAmount)">>>>
    ELSE <<TRUE, <<"Revenue Model ", revenue_model>>>>

\* ----------------------------------------------------------------- literals
S_V041 == <<"V", "0", "4", "1">>
S_COLON == <<":">>
S_PD == <<"P", "D">>
S_Error == <<"E", "r", "r", "o", "r">>
S_error == <<"e", "r", "r", "o", "r">>
S_CreditMemo ==
    <<"C", "r", "e", "d", "i", "t", " ", "m", "e", "m", "o", " ",
      "c", "r", "e", "a", "t", "e", "d">>
CANCELED == "OrderCanceledInAMP"

\* -------------------------------------------------------- history inspection
\* An entry of orderHistory: a JSON object with eventType and eventDescription,
\* or something that is no object (dict = FALSE), which both scans skip.
Event(t, d) == [dict |-> TRUE, eventType |-> t, eventDescription |-> d]
NotAnObject == [dict |-> FALSE, eventType |-> <<>>, eventDescription |-> <<>>]

\* the extraction accepting a prefix of exactly 10 characters
ErrorCode_le(event_desc) ==
    IF StrContains(event_desc, S_V041) THEN Some(S_V041)
    ELSE IF StrContains(event_desc, S_COLON)
    THEN LET potential_code == StrStrip(SplitFirst(event_desc, S_COLON))
         IN IF Len(potential_code) <= 10 THEN Some(potential_code) ELSE None
    ELSE None

\* extraction of the error code from the description of an error event
ErrorCode(event_desc) ==
    IF StrContains(event_desc, S_V041) THEN Some(S_V041)
    ELSE IF StrContains(event_desc, S_COLON)
    THEN LET potential_code == StrStrip(SplitFirst(event_desc, S_COLON))
         IN IF Len(potential_code) < 10 THEN Some(potential_code) ELSE None
    ELSE None

\* the error test without its case-insensitive half
IsErrorEvent_exact(event) ==
    /\ event.dict
    /\ StrContains(event.eventType, S_Error)

IsErrorEvent(event) ==
    /\ event.dict
    /\ \/ StrContains(event.eventType, S_Error)
       \/ StrContains(StrLower(event.eventType), S_error)

\* check_error_in_history reporting the last error event instead of the first
RECURSIVE check_error_in_history_last(_)
check_error_in_history_last(order_history) ==
    IF order_history = <<>> THEN <<FALSE, None, None>>
    ELSE LET event == order_history[Len(order_history)]
         IN IF IsErrorEvent(event)
            THEN <<TRUE, ErrorCode(event.eventDescription), Some(event.eventDescription)>>
            ELSE check_error_in_history_last(Slice(order_history, 1, Len(order_history) - 1))

\* check_error_in_history: (has_error, error_code, error_description)
RECURSIVE check_error_in_history(_)
check_error_in_history(order_history) ==
    IF order_history = <<>> THEN <<FALSE, None, None>>
    ELSE LET event == Head(order_history)
         IN IF IsErrorEvent(event)
            THEN <<TRUE, ErrorCode(event.eventDescription), Some(event.eventDescription)>>
            ELSE check_error_in_history(Tail(order_history))

\* check_credit_memo_in_history
check_credit_memo_in_history(order_history) ==
    \E i \in 1..Len(order_history) :
        /\ order_history[i].dict
        /\ StrContains(order_history[i].eventType, S_CreditMemo)

\* ------------------------------------------------------ remote data shapes
E_V041 == Event(S_Error, <<"V", "0", "4", "1", ":", "x">>)
E_OTHER == Event(<<"E", "R", "R", "O", "R">>, <<"E", "1", " ", ":", "x">>)
E_NOCODE == Event(S_Error, <<"d", "o", "w", "n">>)
E_PRIO == Event(S_Error, <<"E", "1", ":", "V", "0", "4", "1">>)
E_LONG == Event(S_Error, <<"A", "B", "C", "D", "E", "F", "G", "H", "I", "J", ":", "x">>)
E_INFO == Event(<<"C", "r", "e", "a", "t", "e", "d">>, <<"E", "1", ":", "V", "0", "4", "1">>)
E_MEMO == Event(S_CreditMemo, <<>>)

Events == {E_V041, E_OTHER, E_NOCODE, E_PRIO, E_LONG, E_INFO, E_MEMO, NotAnObject}

SeqsUpTo(S, n) == UNION {[1..k -> S] : k \in 0..n}

Histories == SeqsUpTo(Events, MaxHist)
\* an error event whose text before the colon has 10 characters, 9 once stripped
E_PAD == Event(S_Error, <<"A", "B", "C", "D", "E", "F", "G", "H", "I", " ", ":", "x">>)
HistoryEvents == Events \cup {E_PAD}

\* article.id as fetched: None, "", "PD7", "7", "7PD"
ArticleIdValues ==
    {None, Some(<<>>), Some(<<"P", "D", "7">>), Some(<<"7">>), Some(<<"7", "P", "D">>)}

\* the "article" section of an order response: missing, JSON null, or an object
Articles ==
    {[sec |-> "absent", id |-> None], [sec |-> "null", id |-> None]}
        \cup {[sec |-> "dict", id |-> i] : i \in ArticleIdValues}

\* the "paymentDetails" section; a missing totalChargedAmount reads as 0
Payments ==
    {[sec |-> "absent", paymentMethod |-> None, totalChargedAmount |-> None]}
        \cup {[sec |-> "dict", paymentMethod |-> m, totalChargedAmount |-> a] :
                m \in {None, Some("Invoice"), Some("CreditCard")},
                a \in {None, Some(0), Some(1)}}

\* what get_order_details returns: None (unreachable, HTTP error, bad JSON),
\* an empty object, an object without orderDetails, or an order
NoOrder(k, d) ==
    [kind |-> k, details |-> d, orderStatus |-> None, orderHistory |-> <<>>,
     article |-> [sec |-> "absent", id |-> None],
     payment |-> [sec |-> "absent", paymentMethod |-> None, totalChargedAmount |-> None]]

OrderResponse(st, h, a, p) ==
    [kind |-> "dict", details |-> TRUE, orderStatus |-> st, orderHistory |-> h,
     article |-> a, payment |-> p]

OrderResponses ==
    {NoOrder("none", FALSE), NoOrder("empty", FALSE), NoOrder("dict", FALSE)}
        \cup {OrderResponse(st, h, a, p) :
                st \in {Some(CANCELED), Some("OrderCompleted")},
                h \in Histories, a \in Articles, p \in Payments}

\* what the fetch of a canceled sibling returns; only its history is read, and
\* of its history only whether an event type names a credit memo
SiblingHistories == SeqsUpTo({E_MEMO, E_INFO, NotAnObject}, MaxHist)

SiblingOrderResponses ==
    {NoOrder("none", FALSE), NoOrder("dict", FALSE)}
        \cup {OrderResponse(Some(CANCELED), h, [sec |-> "absent", id |-> None],
                            [sec |-> "absent", paymentMethod |-> None,
                             totalChargedAmount |-> None]) : h \in SiblingHistories}

\* orderUniqueId of a listed order: a JSON string, a JSON number or missing;
\* text is what str() makes of it
THIS_ORDER == "101"
IdStr(t) == [type |-> "str", text |-> t]
IdInt(t) == [type |-> "int", text |-> t]
IdNone == [type |-> "none", text |-> "None"]

str(id) == id.text
Truthy(id) == id.type # "none" /\ id.text # "" /\ ~(id.type = "int" /\ id.text = "0")

\* an entry of the payload of the orders-of-an-article query; a missing
\* inCancelledState reads as False
Sibling(id, st, flag) == [orderUniqueId |-> id, orderStatus |-> st, inCancelledState |-> flag]

Siblings ==
    {Sibling(IdStr("101"), CANCELED, TRUE),
     Sibling(IdInt("101"), "OrderCompleted", FALSE),
     Sibling(IdStr("102"), "OrderCompleted", FALSE),
     Sibling(IdStr("102"), "OrderCompleted", TRUE),
     Sibling(IdStr("102"), CANCELED, FALSE),
     Sibling(IdStr("102"), CANCELED, TRUE),
     Sibling(IdInt("103"), CANCELED, TRUE),
     Sibling(IdInt("103"), "OrderCompleted", FALSE),
     Sibling(IdNone, CANCELED, TRUE)}

\* what get_multiple_orders returns; [] stands for every failure
SiblingLists == SeqsUpTo(Siblings, MaxSiblings)

\* what get_product_details returns
Product(k, j, rm) == [kind |-> k, journal |-> j, revenueModel |-> rm]
ProductResponses ==
    {Product("none", "absent", None), Product("empty", "absent", None),
     Product("dict", "absent", None), Product("dict", "notdict", None)}
        \cup {Product("dict", "dict", rm) :
                rm \in {None, Some(""), Some("OO"), Some("OA"), Some("HYBRID")}}

\* --------------------------------------------------------------- OrderResult
\* journal_name and article_doi are copied from the response and never read;
\* they are left out.
OrderResult(order_id, context) ==
    [order_id |-> order_id, article_id |-> None, order_status |-> None,
     payment_method |-> None, total_charged |-> None, revenue_model |-> None,
     has_error |-> FALSE, error_code |-> None, error_description |-> None,
     is_v041_error |-> FALSE, other_orders |-> <<>>, other_orders_not_canceled |-> 0,
     canceled_order_has_credit_memo |-> None,
     can_resend |-> FALSE, validation_reason |-> <<>>, validation_step |-> "",
     resend_status |-> None, resend_error |-> None,
     context |-> context, error |-> None]

\* a test for None only, which takes "" for a value
StrFalsy_none(o) == IsNone(o)
\* Python truthiness of an optional string: None and "" are falsy
StrFalsy(o) == IsNone(o) \/ Val(o) = ""
\* a test for None only, which takes the empty string for a value
SeqFalsy_none(o) == IsNone(o)
SeqFalsy(o) == IsNone(o) \/ Val(o) = <<>>

\* ------------------------------------------------------------ validate_order
\* One evaluation: where it stands (pc), the OrderResult under construction,
\* the locals that live across a remote call, the remote calls made so far and
\* the arguments validate_revenue_model_rules was called with.
\*   pc: "order"     about to fetch the order
\*       "siblings"  about to query the orders of the article
\*       "scan"      about to fetch canceled_orders[idx]
\*       "product"   about to fetch the product details
\*       "returned"  result is the value returned
\*       "raised"    an exception left validate_order; nothing is returned
Frame(order_id, context) ==
    [pc |-> "order", order_id |-> order_id, result |-> OrderResult(order_id, context),
     canceled_orders |-> <<>>, idx |-> 0, calls |-> <<>>, rules |-> <<>>]

Call(fn, order, article) == [fn |-> fn, order |-> order, article |-> article]

Return(f, log, r) == [f EXCEPT !.pc = "returned", !.calls = log, !.result = r]
Raise(f, log, r) == [f EXCEPT !.pc = "raised", !.calls = log, !.result = r]

\* an exit for the missing article id that leaves the reason unset
RevenueStage_noreason(f, log, r) ==
    IF SeqFalsy(r.article_id)
    THEN Return(f, log, [r EXCEPT !.can_resend = FALSE])
    ELSE [f EXCEPT !.pc = "product", !.calls = log, !.result = r]
\* lines 505-516: the article id is required before the product is fetched
RevenueStage(f, log, r) ==
    IF SeqFalsy(r.article_id)
    THEN Return(f, log,
            [r EXCEPT !.can_resend = FALSE,
                      !.validation_reason =
                          <<"article_id not available para validacao de revenue model">>])
    ELSE [f EXCEPT !.pc = "product", !.calls = log, !.result = r]

\* a loop over the canceled orders whose finding is recorded but not tested
AfterScan_waive(f, log, r, has_credit_memo) ==
    RevenueStage(f, log,
        [r EXCEPT !.canceled_order_has_credit_memo = Some(has_credit_memo),
                  !.validation_step = "2.1. V041 - Ignored, validating revenue model"])
\* lines 479-491: after the loop over the canceled orders
AfterScan(f, log, r, has_credit_memo) ==
    LET r1 == [r EXCEPT !.canceled_order_has_credit_memo = Some(has_credit_memo)]
    IN IF ~has_credit_memo
       THEN Return(f, log,
               [r1 EXCEPT !.can_resend = FALSE,
                          !.validation_reason =
                              <<"V041 error: canceled order without credit memo - requires VIAX review">>,
                          !.validation_step = "2.1. V041 - No credit memo"])
       ELSE RevenueStage(f, log,
               [r1 EXCEPT !.validation_step = "2.1. V041 - Ignored, validating revenue model"])

\* lines 461-463: advance the loop to the next canceled order with a truthy id
RECURSIVE ScanFrom(_, _, _, _, _)
ScanFrom(f, log, r, canceled_orders, i) ==
    IF i > Len(canceled_orders) THEN AfterScan(f, log, r, FALSE)
    ELSE IF Truthy(canceled_orders[i].orderUniqueId)
    THEN [f EXCEPT !.pc = "scan", !.calls = log, !.result = r,
                   !.canceled_orders = canceled_orders, !.idx = i]
    ELSE ScanFrom(f, log, r, canceled_orders, i + 1)

\* a loop without the break: the finding of the last canceled order fetched
\* stands
AfterSiblingOrder_last(f, canceled_data) ==
    LET canceled_id == f.canceled_orders[f.idx].orderUniqueId
        log == Append(f.calls, Call("get_order_details", str(canceled_id), <<>>))
        found == /\ canceled_data.kind = "dict"
                 /\ canceled_data.details
                 /\ check_credit_memo_in_history(canceled_data.orderHistory)
        next == ScanFrom(f, log, f.result, f.canceled_orders, f.idx + 1)
    IN IF next.pc = "scan" THEN next ELSE AfterScan(f, log, f.result, found)

\* lines 467-478: the fetch of one canceled order and what follows it
AfterSiblingOrder(f, canceled_data) ==
    LET canceled_id == f.canceled_orders[f.idx].orderUniqueId
        log == Append(f.calls, Call("get_order_details", str(canceled_id), <<>>))
    IN IF /\ canceled_data.kind = "dict"
          /\ canceled_data.details
          /\ check_credit_memo_in_history(canceled_data.orderHistory)
       THEN AfterScan(f, log, f.result, TRUE)
       ELSE ScanFrom(f, log, f.result, f.canceled_orders, f.idx + 1)

\* lines 423-427 with "and" between the status test and the flag test
NotCanceled_and(other_orders, order_id) ==
    SelectSeq(other_orders,
              LAMBDA o : /\ str(o.orderUniqueId) # order_id
                         /\ (o.orderStatus # CANCELED /\ ~o.inCancelledState))

\* lines 423-427 with the ids compared as they come, without str()
NotCanceled_typed(other_orders, order_id) ==
    SelectSeq(other_orders,
              LAMBDA o : /\ o.orderUniqueId # IdStr(order_id)
                         /\ (o.orderStatus # CANCELED \/ ~o.inCancelledState))

\* lines 423-427
NotCanceled(other_orders, order_id) ==
    SelectSeq(other_orders,
              LAMBDA o : /\ str(o.orderUniqueId) # order_id
                         /\ (o.orderStatus # CANCELED \/ ~o.inCancelledState))

\* lines 442-446 without the test that leaves the current order out
CanceledOrders_all(other_orders, order_id) ==
    SelectSeq(other_orders, LAMBDA o : o.orderStatus = CANCELED)

\* lines 442-446 keeping the first canceled order only
CanceledOrders_first(other_orders, order_id) ==
    LET canceled == SelectSeq(other_orders,
                              LAMBDA o : /\ str(o.orderUniqueId) # order_id
                                         /\ o.orderStatus = CANCELED)
    IN IF canceled = <<>> THEN <<>> ELSE <<Head(canceled)>>

\* lines 442-446
CanceledOrders(other_orders, order_id) ==
    SelectSeq(other_orders,
              LAMBDA o : /\ str(o.orderUniqueId) # order_id
                         /\ o.orderStatus = CANCELED)

\* lines 408-459: the orders-of-the-article query and the partition
AfterSiblings(f, other_orders) ==
    LET clean_article_id == StrRemoveAll(Val(f.result.article_id), S_PD)
        log == Append(f.calls, Call("get_multiple_orders", "", clean_article_id))
        r1 == [f.result EXCEPT !.other_orders = other_orders]
        not_canceled == NotCanceled(other_orders, f.order_id)
        r2 == [r1 EXCEPT !.other_orders_not_canceled = Len(not_canceled)]
        canceled_orders == CanceledOrders(other_orders, f.order_id)
    IN IF other_orders = <<>>
       THEN Return(f, log,
               [r1 EXCEPT !.can_resend = FALSE,
                          !.validation_reason =
                              <<"V041 error: could not verify other orders for the article">>])
       ELSE IF Len(not_canceled) > 0
       THEN Return(f, log,
               [r2 EXCEPT !.can_resend = FALSE,
                          !.validation_reason =
                              <<"V041 error: ", ToString(Len(not_canceled)),
                                " non-canceled order(s) detected - requires VIAX review">>,
                          !.validation_step = "2.1. V041 - Multiple active orders"])
       ELSE IF canceled_orders = <<>>
       THEN Return(f, log,
               [r2 EXCEPT !.can_resend = FALSE,
                          !.validation_reason = <<"V041 error: no canceled order found">>,
                          !.validation_step = "2.1. V041 - No canceled orders"])
       ELSE ScanFrom(f, log, r2, canceled_orders, 1)

\* the code formatted as it is, None included
ErrorCodeText_raw(error_code) == IF IsNone(error_code) THEN <<"None">> ELSE Val(error_code)
\* line 496: error_code or 'DESCONHECIDO'
ErrorCodeText(error_code) ==
    IF SeqFalsy(error_code) THEN <<"DESCONHECIDO">> ELSE Val(error_code)

\* lines 383-503: the error check on the order's own history
ErrorCheck(f, log, r, order_history) ==
    LET e == check_error_in_history(order_history)
        r1 == [r EXCEPT !.has_error = e[1], !.error_code = e[2],
                        !.error_description = e[3]]
    IN IF e[1]
       THEN IF e[2] = Some(S_V041)
            THEN LET r2 == [r1 EXCEPT !.is_v041_error = TRUE,
                                      !.validation_step = "2. V041 error detection"]
                 IN IF SeqFalsy(r2.article_id)
                    THEN Return(f, log,
                            [r2 EXCEPT !.validation_reason =
                                           <<"Erro V041 detected but article_id not available">>,
                                       !.can_resend = FALSE])
                    ELSE [f EXCEPT !.pc = "siblings", !.calls = log, !.result = r2]
            ELSE Return(f, log,
                    [r1 EXCEPT !.can_resend = FALSE,
                               !.validation_reason =
                                   <<"Error detected: ">> \o ErrorCodeText(e[2])
                                       \o <<" - ">> \o Val(e[3]),
                               !.validation_step = "2.2. Other error detected"])
       ELSE RevenueStage(f, log,
               [r1 EXCEPT !.validation_step = "3. No errors, validating revenue model"])

\* line 374 with the status compared to another literal
IsCanceledStatus_literal(order_status) == order_status = Some("OrderCanceled")

\* line 374: result.order_status == "OrderCanceledInAMP"
IsCanceledStatus(order_status) == order_status = Some(CANCELED)

\* lines 331-381: the fetch of the order, the extraction, the cancellation check
AfterOrder(f, order_data) ==
    LET log == Append(f.calls, Call("get_order_details", f.order_id, <<>>))
        r == f.result
        r1 == [r EXCEPT !.order_status = order_data.orderStatus]
        r2 == [r1 EXCEPT
                 !.article_id = IF order_data.article.sec = "dict"
                                THEN order_data.article.id ELSE @,
                 !.payment_method = IF order_data.payment.sec = "dict"
                                    THEN order_data.payment.paymentMethod ELSE @,
                 !.total_charged = IF order_data.payment.sec = "dict"
                                   THEN order_data.payment.totalChargedAmount ELSE @]
    IN IF order_data.kind \in {"none", "empty"}
       THEN Return(f, log,
               [r EXCEPT !.error = Some("Could not query the order"),
                         !.validation_reason = <<"Error querying ASAT">>,
                         !.validation_step = "1. Order query"])
       ELSE IF ~order_data.details
       THEN Return(f, log,
               [r EXCEPT !.validation_reason = <<"orderDetails not found na resposta">>,
                         !.validation_step = "1. Order query"])
       ELSE IF order_data.article.sec = "null"
       THEN Raise(f, log, r1)
       ELSE IF IsCanceledStatus(r2.order_status)
       THEN Return(f, log,
               [r2 EXCEPT !.can_resend = FALSE,
                          !.validation_reason = <<"Order canceled (OrderCanceledInAMP)">>,
                          !.validation_step = "1. Canceled status check"])
       ELSE ErrorCheck(f, log, r2, order_data.orderHistory)

\* lines 544-555: the final reason
FinalReason(can_resend, is_v041_error, reason) ==
    IF can_resend
    THEN IF is_v041_error
         THEN <<"CAN RESEND: V041 ignored + ">> \o reason
         ELSE <<"CAN RESEND: ">> \o reason
    ELSE <<"BLOCKED: ">> \o reason

\* lines 538-542 with the charged amount defaulting to 1
RuleArgs_default1(r) ==
    <<Val(r.revenue_model),
      IF StrFalsy(r.payment_method) THEN "" ELSE Val(r.payment_method),
      IF IsNone(r.total_charged) \/ Val(r.total_charged) = 0 THEN 1 ELSE Val(r.total_charged)>>

\* lines 538-542: revenue model, payment_method or "", total_charged or 0
RuleArgs(r) ==
    <<Val(r.revenue_model),
      IF StrFalsy(r.payment_method) THEN "" ELSE Val(r.payment_method),
      IF IsNone(r.total_charged) THEN 0 ELSE Val(r.total_charged)>>

\* lines 517-557: the product fetch, the revenue model and the rules
AfterProduct(f, product_data) ==
    LET log == Append(f.calls, Call("get_product_details", "", Val(f.result.article_id)))
        r == f.result
        r1 == [r EXCEPT !.revenue_model = IF product_data.journal = "dict"
                                          THEN product_data.revenueModel ELSE @]
        a == RuleArgs(r1)
        v == validate_revenue_model_rules(a[1], a[2], a[3])
    IN IF product_data.kind \in {"none", "empty"}
       THEN Return(f, log,
               [r EXCEPT !.can_resend = FALSE,
                         !.validation_reason =
                             <<"Could not query productDetails to get revenue model">>])
       ELSE IF StrFalsy(r1.revenue_model)
       THEN Return(f, log,
               [r1 EXCEPT !.can_resend = FALSE,
                          !.validation_reason = <<"Revenue model not found em productDetails">>])
       ELSE [Return(f, log,
                [r1 EXCEPT !.can_resend = v[1],
                           !.validation_reason = FinalReason(v[1], r1.is_v041_error, v[2])])
             EXCEPT !.rules = Append(@, a)]

\* -------------------------------------------- validate_order, start to end
\* the remote data one evaluation meets: the answer to each of its calls
Snapshot(order, siblings, sibling_order, product) ==
    [order |-> order, siblings |-> siblings, sibling_order |-> sibling_order,
     product |-> product]

RECURSIVE RunEval(_, _)
RunEval(f, gw) ==
    CASE f.pc = "order" -> RunEval(AfterOrder(f, gw.order), gw)
      [] f.pc = "siblings" -> RunEval(AfterSiblings(f, gw.siblings), gw)
      [] f.pc = "scan" -> RunEval(AfterSiblingOrder(f, gw.sibling_order), gw)
      [] f.pc = "product" -> RunEval(AfterProduct(f, gw.product), gw)
      [] OTHER -> f

\* validate_order(order_id, session, timeout, context): the frame it ends in
validate_order(order_id, context, gw) == RunEval(Frame(order_id, context), gw)

\* ------------------------------------------------------------ batch inputs
PlainOrder(p) ==
    OrderResponse(Some("OrderCompleted"), <<>>,
                  [sec |-> "dict", id |-> Some(<<"P", "D", "7">>)], p)
CardPayment ==
    [sec |-> "dict", paymentMethod |-> Some("CreditCard"), totalChargedAmount |-> Some(1)]
FreePayment ==
    [sec |-> "dict", paymentMethod |-> Some("Invoice"), totalChargedAmount |-> Some(0)]

\* the remote data behind the orders of a batch: an order the rules allow, one
\* they deny, one that cannot be fetched, and one whose response carries
\* "article": null, on which validate_order raises AttributeError
Snapshots ==
    {Snapshot(PlainOrder(CardPayment), <<>>, NoOrder("none", FALSE),
              Product("dict", "dict", Some("OA"))),
     Snapshot(PlainOrder(FreePayment), <<>>, NoOrder("none", FALSE),
              Product("dict", "dict", Some("OO"))),
     Snapshot(NoOrder("none", FALSE), <<>>, NoOrder("none", FALSE),
              Product("none", "absent", None)),
     Snapshot(OrderResponse(Some("OrderCompleted"), <<>>,
                            [sec |-> "null", id |-> None], CardPayment),
              <<>>, NoOrder("none", FALSE), Product("none", "absent", None))}

\* read_csv_orders: row n of the file yields (order id, context)
CsvRow(n) == [order_id |-> ToString(100 + n),
              context |-> [file |-> "orders.csv", row_number |-> n + 1]]

\* Python: str.upper() on the letters of the answers
UpperChar(c) ==
    CASE c = "y" -> "Y"
      [] c = "e" -> "E"
      [] c = "s" -> "S"
      [] c = "n" -> "N"
      [] c = "o" -> "O"
      [] OTHER -> c
StrUpper(s) == [i \in 1..Len(s) |-> UpperChar(s[i])]

\* what the operator may type at a (Y/N) prompt
Answers == {<<"y">>, <<"Y", "E", "S">>, <<"n">>, <<"N", "O">>, <<"x">>}

\* lines 701 and 714: confirm in ["Y", "YES", "N", "NO"]
Confirmed(confirm) == confirm \in {<<"Y">>, <<"Y", "E", "S">>, <<"N">>, <<"N", "O">>}

\* lines 589-603 with a fault emptying the list
Collect_reset(results, i, state) ==
    IF state = "returned" THEN Append(results, i) ELSE <<>>

\* lines 589-603: one turn of the as_completed loop; a result is appended, an
\* exception is logged
Collect(results, i, state) ==
    IF state = "returned" THEN Append(results, i) ELSE results

\* ===================================================================== state
VARIABLES
    ev,         \* Spec: the evaluation of one order by validate_order
    net,        \* Spec: the remote call in flight or the last response received
    rules_in,   \* SpecRules: the arguments of validate_revenue_model_rules
    rules_out,  \* SpecRules: what it returned, <<>> before the call
    history_in, \* SpecHistory: the argument of check_error_in_history
    history_out, \* SpecHistory: what it returned, <<>> before the call
    orders,     \* SpecBatch: the (order id, context) pairs read from the CSV
    remote,     \* SpecBatch: the remote data behind each order
    args,       \* SpecBatch: the command line, <<>> until main reads it
    fut,        \* SpecBatch: the state of each future
    pool,       \* SpecBatch: the executor's record of the calls it ran
    heap,       \* SpecBatch: the OrderResult object each evaluation made
    yielded,    \* SpecBatch: the futures as_completed has yielded
    results,    \* SpecBatch: the result list, as references into heap
    main        \* SpecBatch: main()'s position and locals

vars == <<ev, net, rules_in, rules_out, history_in, history_out, orders, remote, args,
          fut, pool, heap, yielded, results, main>>
history_vars == <<history_in, history_out>>
batch_vars == <<orders, remote, args, fut, pool, heap, yielded, results, main>>

CONTEXT == [file |-> "orders.csv", row_number |-> 2]

Idle == [state |-> "idle", of |-> "", data |-> <<>>]
NoRules == [revenue_model |-> "", payment_method |-> "", total_charged |-> 0]
MainStart ==
    [pc |-> "submit", finished |-> {}, approved |-> <<>>, to_resend |-> <<>>, sent |-> 0,
     posts |-> <<>>, choice |-> "", confirm |-> <<>>,
     summary |-> [total |-> 0, approved |-> 0, blocked |-> 0, errors |-> 0,
                  bloqueio_counts |-> <<>>]]

\* no call has been run yet: how often each submitted call was started, and
\* the complete futures not yet yielded, in the order in which they completed
PoolStart(n) == [runs |-> [i \in 1..n |-> 0], completed |-> <<>>]

EvalIdle == ev = Frame(THIS_ORDER, CONTEXT) /\ net = Idle
RulesIdle == rules_in = NoRules /\ rules_out = <<>>
HistoryIdle == history_in = <<>> /\ history_out = <<>>
BatchIdle ==
    /\ orders = <<>> /\ remote = <<>> /\ args = <<>>
    /\ fut = <<>> /\ pool = PoolStart(0)
    /\ heap = <<>> /\ yielded = {} /\ results = <<>>
    /\ main = MainStart

\* ------------------------------------------------------------ Spec: one order
Init == EvalIdle /\ RulesIdle /\ HistoryIdle /\ BatchIdle

\* a remote call is issued: session.get(url, timeout=timeout)
Request ==
    /\ ev.pc \in {"order", "siblings", "scan", "product"}
    /\ net.state # "pending"
    /\ net' = [state |-> "pending", of |-> ev.pc, data |-> <<>>]
    /\ UNCHANGED <<history_vars, ev, rules_in, rules_out, batch_vars>>

Answered(data) == [state |-> "answered", of |-> ev.pc, data |-> data]

\* get_order_details(order_id) answers; validate_order runs to its next call
OrderFetched ==
    /\ net.state = "pending" /\ ev.pc = "order"
    /\ \E order_data \in OrderResponses :
          /\ ev' = AfterOrder(ev, order_data)
          /\ net' = Answered(order_data)
    /\ UNCHANGED <<history_vars, rules_in, rules_out, batch_vars>>

\* get_multiple_orders(article_id) answers
SiblingsFetched ==
    /\ net.state = "pending" /\ ev.pc = "siblings"
    /\ \E other_orders \in SiblingLists :
          /\ ev' = AfterSiblings(ev, other_orders)
          /\ net' = Answered(other_orders)
    /\ UNCHANGED <<history_vars, rules_in, rules_out, batch_vars>>

\* get_order_details(canceled_id) answers
SiblingOrderFetched ==
    /\ net.state = "pending" /\ ev.pc = "scan"
    /\ \E canceled_data \in SiblingOrderResponses :
          /\ ev' = AfterSiblingOrder(ev, canceled_data)
          /\ net' = Answered(canceled_data)
    /\ UNCHANGED <<history_vars, rules_in, rules_out, batch_vars>>

\* get_product_details(article_id) answers
ProductFetched ==
    /\ net.state = "pending" /\ ev.pc = "product"
    /\ \E product_data \in ProductResponses :
          /\ ev' = AfterProduct(ev, product_data)
          /\ net' = Answered(product_data)
    /\ UNCHANGED <<history_vars, rules_in, rules_out, batch_vars>>

Next ==
    \/ Request
    \/ OrderFetched
    \/ SiblingsFetched
    \/ SiblingOrderFetched
    \/ ProductFetched

Spec == Init /\ [][Next]_vars

\* -------------------------------------------- SpecRules: the rule set alone
InitRules ==
    /\ EvalIdle /\ HistoryIdle /\ BatchIdle
    /\ rules_in \in [revenue_model : RevenueModels, payment_method : PaymentMethods,
                     total_charged : Amounts]
    /\ rules_out = <<>>

ApplyRules ==
    /\ rules_out = <<>>
    /\ rules_out' = validate_revenue_model_rules(rules_in.revenue_model,
                                                 rules_in.payment_method,
                                                 rules_in.total_charged)
    /\ UNCHANGED <<history_vars, ev, net, rules_in, batch_vars>>

NextRules == ApplyRules

SpecRules == InitRules /\ [][NextRules]_vars

\* ------------------------------- SpecHistory: check_error_in_history alone
InitHistory ==
    /\ EvalIdle /\ RulesIdle /\ BatchIdle
    /\ history_in \in SeqsUpTo(HistoryEvents, MaxHist)
    /\ history_out = <<>>

CheckHistory ==
    /\ history_out = <<>>
    /\ history_out' = check_error_in_history(history_in)
    /\ UNCHANGED <<ev, net, rules_in, rules_out, history_in, batch_vars>>

NextHistory == CheckHistory

SpecHistory == InitHistory /\ [][NextHistory]_vars

\* ------------------------------------------------------- SpecBatch: main()
\* lines 640, 877: the results approved for resend, in list order
Approved(rs, h) == SelectSeq(rs, LAMBDA r : h[r].can_resend)
\* a count of the blocked that forgets the query-failure marker
Blocked_any(rs, h) == SelectSeq(rs, LAMBDA r : ~h[r].can_resend)
\* lines 641, 878: blocked by a rule
Blocked(rs, h) == SelectSeq(rs, LAMBDA r : ~h[r].can_resend /\ h[r].error = None)
\* line 879: query errors
Errors(rs, h) == SelectSeq(rs, LAMBDA r : h[r].error # None)

\* lines 892-898: bloqueio_counts, the blocking reason -> how many blocked
\* results carry it; built only when some result is blocked
RECURSIVE CountReasons(_, _, _)
CountReasons(rs, h, counts) ==
    IF rs = <<>> THEN counts
    ELSE LET r == h[Head(rs)]
             reason == r.validation_reason
             seen == IF reason \in DOMAIN counts THEN counts[reason] ELSE 0
         IN CountReasons(Tail(rs), h,
                IF ~r.can_resend /\ r.error = None
                THEN (reason :> (seen + 1)) @@ counts
                ELSE counts)
BlockingReasons(rs, h) ==
    IF Len(Blocked(rs, h)) > 0 THEN CountReasons(rs, h, <<>>) ELSE <<>>

\* line 709: the approved orders at the indices typed, out-of-range ones dropped
RECURSIVE Selected(_, _)
Selected(approved, indices) ==
    IF indices = <<>> THEN <<>>
    ELSE LET i == Head(indices)
         IN (IF 1 <= i /\ i <= Len(approved) THEN <<approved[i]>> ELSE <<>>)
                \o Selected(approved, Tail(indices))

InitBatch ==
    /\ EvalIdle /\ RulesIdle /\ HistoryIdle
    /\ \E n \in 1..MaxOrders :
          /\ orders = [i \in 1..n |-> CsvRow(i)]
          /\ remote \in [1..n -> Snapshots]
          /\ fut = [i \in 1..n |-> "queued"]
          /\ pool = PoolStart(n)
    /\ args = <<>>
    /\ heap = <<>> /\ yielded = {} /\ results = <<>>
    /\ main = MainStart

Running == {j \in DOMAIN fut : fut[j] = "running"}
Completed == {j \in DOMAIN fut : fut[j] \in {"returned", "raised"}}

\* a pool that starts a thread for every submitted call
HasIdleWorker_always(running) == TRUE
\* line 583: ThreadPoolExecutor(max_workers=max_workers) runs a queued call only
\* on one of its max_workers threads
HasIdleWorker(running) == Cardinality(running) < max_workers

\* a loop over the futures in the order of submission
as_completed_submitted(finished, completed, done) ==
    LET left == DOMAIN fut \ done
    IN IF left = {} THEN {}
       ELSE {i \in left : (\A j \in left : i <= j) /\ i \in Completed}
\* line 589: as_completed(futures), the futures that may be yielded next.  Those
\* complete when it was called (finished, a set it pops from) come first, in no
\* particular order; the others follow one by one in the order in which they
\* complete.
as_completed(finished, completed, done) ==
    IF finished # {} THEN finished
    ELSE IF completed = <<>> THEN {} ELSE {Head(completed)}

\* a pool thread takes the oldest queued call of validate_order
Start(i) ==
    /\ main.pc \in {"submit", "batch"}
    /\ fut[i] = "queued"
    /\ \A j \in 1..(i - 1) : fut[j] # "queued"
    /\ HasIdleWorker(Running)
    /\ fut' = [fut EXCEPT ![i] = "running"]
    /\ pool' = [pool EXCEPT !.runs[i] = @ + 1]
    /\ UNCHANGED <<history_vars, ev, net, rules_in, rules_out, orders, remote, args, heap, yielded,
                   results, main>>

\* validate_order returns its OrderResult or raises; the future completes
Finish(i) ==
    /\ fut[i] = "running"
    /\ LET f == validate_order(orders[i].order_id, orders[i].context, remote[i])
       IN /\ fut' = [fut EXCEPT ![i] = f.pc]
          /\ heap' = IF f.pc = "returned" THEN (i :> f.result) @@ heap ELSE heap
    /\ pool' = [pool EXCEPT !.completed = Append(@, i)]
    /\ UNCHANGED <<history_vars, ev, net, rules_in, rules_out, orders, remote, args, yielded,
                   results, main>>

\* line 589: every call is submitted and as_completed is called; it sets aside
\* the futures that are complete at that moment
AsCompleted ==
    /\ main.pc = "submit"
    /\ main' = [main EXCEPT !.pc = "batch", !.finished = Completed]
    /\ UNCHANGED <<history_vars, ev, net, rules_in, rules_out, orders, remote, args, fut, pool, heap,
                   yielded, results>>

\* as_completed yields a future; the loop body runs on it
Yield(i) ==
    /\ main.pc = "batch"
    /\ i \in as_completed(main.finished, pool.completed, yielded)
    /\ main' = [main EXCEPT !.finished = @ \ {i}]
    /\ pool' = [pool EXCEPT !.completed = SelectSeq(@, LAMBDA j : j # i)]
    /\ yielded' = yielded \cup {i}
    /\ results' = Collect(results, i, fut[i])
    /\ UNCHANGED <<history_vars, ev, net, rules_in, rules_out, orders, remote, args, fut, heap>>

\* lines 875-906: the loop is over; the summary, the display of the approved
\* orders and the decision to open the menu.  args.no_interactive is read here
\* and nowhere before (line 906), so the value given on the command line is
\* drawn here.
Summarise ==
    /\ main.pc = "batch"
    /\ yielded = DOMAIN fut
    /\ args' \in [no_interactive : BOOLEAN]
    /\ LET approved == Approved(results, heap)
       IN main' = [main EXCEPT
                     !.summary = [total |-> Len(results),
                                  approved |-> Len(approved),
                                  blocked |-> Len(Blocked(results, heap)),
                                  errors |-> Len(Errors(results, heap)),
                                  bloqueio_counts |->
                                      BlockingReasons(results, heap)],
                     !.approved = approved,
                     !.pc = IF approved # <<>> /\ ~args'.no_interactive
                            THEN "menu" ELSE "save"]
    /\ UNCHANGED <<history_vars, ev, net, rules_in, rules_out, orders, remote, fut, pool, heap,
                   yielded, results>>

\* ask_user_resend returns to_resend; line 911
AfterMenu(choice, confirm, to_resend) ==
    /\ main' = [main EXCEPT !.choice = choice, !.confirm = confirm,
                            !.to_resend = to_resend,
                            !.pc = IF to_resend # <<>> THEN "resend" ELSE "save"]
    /\ UNCHANGED <<history_vars, ev, net, rules_in, rules_out, orders, remote, args, fut, pool,
                   heap, yielded, results>>

\* option 1 and the answer to "Confirm resend of n order(s)? (Y/N)"
ChooseAll ==
    /\ main.pc = "menu"
    /\ \E answer \in Answers :
          LET confirm == StrUpper(answer)
          IN AfterMenu("1", confirm, IF Confirmed(confirm) THEN main.approved ELSE <<>>)

\* option 2, index numbers selecting at least one order, and the answer to
\* "Confirm? (Y/N)"
ChooseSome ==
    /\ main.pc = "menu"
    /\ \E indices \in SeqsUpTo(0..(Len(main.approved) + 1), MaxPick), answer \in Answers :
          LET selected == Selected(main.approved, indices)
              confirm == StrUpper(answer)
          IN /\ selected # <<>>
             /\ AfterMenu("2", confirm, IF Confirmed(confirm) THEN selected ELSE <<>>)

\* option 3
ChooseNone ==
    /\ main.pc = "menu"
    /\ AfterMenu("3", <<>>, <<>>)

\* KeyboardInterrupt or EOFError at a prompt
Abort ==
    /\ main.pc = "menu"
    /\ AfterMenu("abort", <<>>, <<>>)

\* a resend that also withdraws the approval of the order it has sent
Resent_withdraw(order, outcome) ==
    [order EXCEPT
        !.resend_status = IF outcome = "ok" THEN Some("success") ELSE Some("failed"),
        !.resend_error = IF outcome = "ok" THEN @ ELSE Some(outcome),
        !.can_resend = outcome # "ok"]
\* lines 753, 763, 771, 775-776: what resend_orders_batch writes on the
\* OrderResult it was given
Resent(order, outcome) ==
    [order EXCEPT
        !.resend_status = IF outcome = "ok" THEN Some("success") ELSE Some("failed"),
        !.resend_error = IF outcome = "ok" THEN @ ELSE Some(outcome)]

\* lines 741-778: one turn of the loop of resend_orders_batch; the POST is
\* answered ok, or it fails (an HTTP error or an exception, which differ only
\* in the text of resend_error)
Post ==
    /\ main.pc = "resend"
    /\ LET ref == main.to_resend[main.sent + 1]
       IN /\ \E outcome \in {"ok", "failed"} :
                heap' = [heap EXCEPT ![ref] = Resent(@, outcome)]
          /\ main' = [main EXCEPT
                        !.posts = Append(@, heap[ref].order_id),
                        !.sent = @ + 1,
                        !.pc = IF main.sent + 1 = Len(main.to_resend)
                               THEN "save" ELSE "resend"]
    /\ UNCHANGED <<history_vars, ev, net, rules_in, rules_out, orders, remote, args, fut, pool,
                   yielded, results>>

\* lines 914-930: save_results
Save ==
    /\ main.pc = "save"
    /\ main' = [main EXCEPT !.pc = "done"]
    /\ UNCHANGED <<history_vars, ev, net, rules_in, rules_out, orders, remote, args, fut, pool,
                   heap, yielded, results>>

NextBatch ==
    \/ \E i \in DOMAIN fut : Start(i)
    \/ \E i \in DOMAIN fut : Finish(i)
    \/ AsCompleted
    \/ \E i \in DOMAIN fut : Yield(i)
    \/ Summarise
    \/ ChooseAll
    \/ ChooseSome
    \/ ChooseNone
    \/ Abort
    \/ Post
    \/ Save

SpecBatch == InitBatch /\ [][NextBatch]_vars

\* ==================================================================== claims
\* what the last answer was
OrderAnswer == net.state = "answered" /\ net.of = "order"
SiblingsAnswer == net.state = "answered" /\ net.of = "siblings"
ProductAnswer == net.state = "answered" /\ net.of = "product"
Returned == ev.pc = "returned"

\* the remote calls made for anything but the order itself
NoSiblingFetch ==
    \A i \in 1..Len(ev.calls) :
        /\ ev.calls[i].fn # "get_multiple_orders"
        /\ (ev.calls[i].fn = "get_order_details" => i = 1)
NoProductFetch == \A i \in 1..Len(ev.calls) : ev.calls[i].fn # "get_product_details"

\* the order was fetched with an order-details section
FetchedWithDetails == OrderAnswer /\ net.data.kind = "dict" /\ net.data.details

IsOtherError(event) ==
    IsErrorEvent(event) /\ ErrorCode(event.eventDescription) # Some(S_V041)
FirstErrorAt(h, i) ==
    /\ i \in 1..Len(h) /\ IsErrorEvent(h[i])
    /\ \A j \in 1..(i - 1) : ~IsErrorEvent(h[j])

FetchedNotCanceled ==
    FetchedWithDetails /\ net.data.orderStatus # Some(CANCELED) /\ ev.pc # "raised"

DeniedAtErrorCheck ==
    /\ Returned
    /\ ev.result.can_resend = FALSE
    /\ ev.result.validation_step = "2.2. Other error detected"
    /\ NoProductFetch /\ ev.rules = <<>>

ActiveSiblings(other_orders) ==
    {i \in 1..Len(other_orders) :
        /\ str(other_orders[i].orderUniqueId) # THIS_ORDER
        /\ (other_orders[i].orderStatus # CANCELED \/ ~other_orders[i].inCancelledState)}

\* C3: when the sibling set holds a not-canceled sibling other than the current
\* order, V041 resolution denies at the "multiple active orders" step with a
\* reason citing their count; no sibling history is fetched and the revenue
\* model is not validated.
C3_ActiveSiblingDenies ==
    (SiblingsAnswer /\ ActiveSiblings(net.data) # {})
        => /\ Returned
           /\ ev.result.can_resend = FALSE
           /\ ev.result.validation_step = "2.1. V041 - Multiple active orders"
           /\ ev.result.validation_reason =
                  <<"V041 error: ", ToString(Cardinality(ActiveSiblings(net.data))),
                    " non-canceled order(s) detected - requires VIAX review">>
           /\ Len(ev.calls) = 2 /\ NoProductFetch /\ ev.rules = <<>>

\* an active sibling listed next to a canceled one: denied, nothing fetched
C3_Witness ==
    /\ SiblingsAnswer
    /\ net.data = <<Sibling(IdStr("102"), CANCELED, TRUE),
                    Sibling(IdStr("102"), CANCELED, FALSE)>>
    /\ Returned
    /\ ev.result.other_orders_not_canceled = 1

\* C4: validate_revenue_model_rules returns one (bool, reason) for every
\* triple, and denies exactly for (OO, any, 0) and (OA, Invoice, 0).
C4_RulesTotal ==
    rules_out # <<>>
        => /\ Len(rules_out) = 2
           /\ rules_out[1] \in BOOLEAN
           /\ Len(rules_out[2]) > 0
           /\ (rules_out[1] = FALSE)
                <=> \/ rules_in.revenue_model = "OO" /\ rules_in.total_charged = 0
                    \/ /\ rules_in.revenue_model = "OA"
                       /\ rules_in.payment_method = "Invoice"
                       /\ rules_in.total_charged = 0

\* OO with a negative amount was allowed
C4_Witness ==
    /\ rules_out # <<>>
    /\ rules_in.revenue_model = "OO" /\ rules_in.total_charged < 0
    /\ rules_out[1] = TRUE

\* the product details came with a journal section and a revenue model
RevenueModelAvailable ==
    /\ ProductAnswer /\ net.data.kind = "dict" /\ net.data.journal = "dict"
    /\ ~StrFalsy(net.data.revenueModel)

\* the rule set applied to the order's stored payment data
RuleVerdict(r, revenue_model) ==
    validate_revenue_model_rules(
        revenue_model,
        IF r.payment_method \in {None, Some("")} THEN "" ELSE r.payment_method[1],
        IF r.total_charged = None THEN 0 ELSE r.total_charged[1])

\* C5: when an evaluation reaches the rule set with article id, product
\* details and revenue model available, after no error or after a waived V041,
\* the final can_resend is the verdict of validate_revenue_model_rules on
\* (revenue model, payment method or "", charged amount or 0) and the final
\* reason contains the rule's reason.
C5_FinalVerdictIsRuleVerdict ==
    RevenueModelAvailable
        => /\ Returned
           /\ Len(ev.rules) = 1
           /\ ev.result.revenue_model = net.data.revenueModel
           /\ ev.result.can_resend = RuleVerdict(ev.result, net.data.revenueModel[1])[1]
           /\ StrContains(ev.result.validation_reason,
                          RuleVerdict(ev.result, net.data.revenueModel[1])[2])

\* scenario 4: V041 waived, OA paid by credit card, allowed
C5_Witness ==
    /\ RevenueModelAvailable /\ Returned
    /\ ev.result.is_v041_error
    /\ ev.result.canceled_order_has_credit_memo = Some(TRUE)
    /\ ev.result.revenue_model = Some("OA")
    /\ ev.result.payment_method = Some("CreditCard")
    /\ ev.result.can_resend = TRUE
    /\ ev.result.validation_reason =
           <<"CAN RESEND: V041 ignored + ", "OA + ", "CreditCard",
             " (regardless of totalChargedAmount)">>

\* C6 as stated: an order fetch that is unreachable or lacks the order-details
\* section ends at step "1. Order query" with the query-failure marker set.
C6_QueryFailureMarked ==
    (OrderAnswer /\ (net.data.kind \in {"none", "empty"} \/ ~net.data.details))
        => /\ Returned
           /\ ev.result.validation_step = "1. Order query"
           /\ ev.result.error # None

\* the parts of a reason that name the V041 waiver
WaiverTags == {"CAN RESEND: V041 ignored + "}
Tagged(reason) == \E i \in 1..Len(reason) : reason[i] \in WaiverTags

\* C7 as stated: once V041 was waived, the final reason names the waiver
\* whether the rule set allows or denies.
C7_WaiverTaggedBothWays ==
    (RevenueModelAvailable /\ Returned /\ ev.result.is_v041_error)
        => Tagged(ev.result.validation_reason)


\* the batch is over: process_file_parallel has returned
BatchOver == main.pc \notin {"submit", "batch"}
\* the positions of the records of submitted order i in the result list
RecordsOf(i) ==
    {k \in 1..Len(results) :
        /\ heap[results[k]].order_id = orders[i].order_id
        /\ heap[results[k]].context = orders[i].context}

\* C8 as stated: a resend request is posted for an order only if its verdict
\* has can_resend = true and, in interactive mode, the operator selected it
\* and answered the confirmation with Y or YES; never after N or NO, option 3
\* or an abort, and never in --no-interactive mode.
C8_PostOnlyIfConfirmed ==
    \A k \in 1..Len(main.posts) :
        /\ ~args.no_interactive
        /\ main.choice \in {"1", "2"}
        /\ main.confirm \in {<<"Y">>, <<"Y", "E", "S">>}
        /\ \E j \in 1..Len(main.to_resend) :
              /\ heap[main.to_resend[j]].order_id = main.posts[k]
              /\ heap[main.to_resend[j]].can_resend

\* C9: when the evaluation of one order raised, the batch still finishes with
\* the result of every order whose evaluation returned in the result list,
\* once, and under that order's id and context.
C9_FaultDoesNotTouchOthers ==
    (BatchOver /\ \E j \in DOMAIN fut : fut[j] = "raised")
        => \A i \in DOMAIN fut :
              fut[i] = "returned"
                  => /\ Cardinality({k \in 1..Len(results) : results[k] = i}) = 1
                     /\ Cardinality(RecordsOf(i)) = 1

\* the second of three orders raised; the first and the third are in the list
C9_Witness ==
    /\ main.pc = "done"
    /\ Len(orders) = 3
    /\ fut[2] = "raised" /\ fut[1] = "returned" /\ fut[3] = "returned"
    /\ results = <<3, 1>>

\* C10 as stated: after the batch every submitted pair has exactly one record
\* in the results, so that the total of the summary is the number submitted.
C10_OneRecordPerOrder ==
    BatchOver
        => /\ \A i \in DOMAIN orders : Cardinality(RecordsOf(i)) = 1
           /\ main.summary.total = Len(orders)

\* ------------------------------------------------------------------ C11
\* the sum of the values of a table of counts
RECURSIVE SumOf(_)
SumOf(counts) ==
    IF DOMAIN counts = {} THEN 0
    ELSE LET k == CHOOSE x \in DOMAIN counts : TRUE
         IN counts[k] + SumOf([x \in DOMAIN counts \ {k} |-> counts[x]])

\* C11: in the batch summary the approved, the denied (not approved, no
\* query-failure marker) and the failed-to-query (marker set) add up to the
\* total, no aggregated result is both approved and marked as a query failure,
\* and the counts of the table of denial reasons add up to the denied count.
C11_SummaryPartitionsResults ==
    BatchOver
        => /\ main.summary.total = Len(results)
           /\ main.summary.approved + main.summary.blocked + main.summary.errors
                  = main.summary.total
           /\ \A k \in 1..Len(results) :
                  ~(heap[results[k]].can_resend /\ heap[results[k]].error # None)
           /\ SumOf(main.summary.bloqueio_counts) = main.summary.blocked

\* a batch of three with one approved, one denied and one query failure
C11_Witness ==
    /\ BatchOver
    /\ main.summary.total = 3
    /\ main.summary.approved = 1
    /\ main.summary.blocked = 1
    /\ main.summary.errors = 1
    /\ DOMAIN main.summary.bloqueio_counts # {}

\* ------------------------------------------------------------------ C13
\* what validate_order makes of submitted order i on the remote data behind it
VerdictOf(i) == validate_order(orders[i].order_id, orders[i].context, remote[i])
\* the same for the first n submitted orders, in the order of submission
RECURSIVE VerdictsOf(_)
VerdictsOf(n) == IF n = 0 THEN <<>> ELSE Append(VerdictsOf(n - 1), VerdictOf(n))
\* two records agree in everything but the outcome of a resend
SameVerdict(a, b) ==
    [a EXCEPT !.resend_status = b.resend_status, !.resend_error = b.resend_error] = b

\* main has just made the summary: nothing was chosen at the menu yet
Summarised == BatchOver /\ main.choice = ""

\* the records and the summary are those that the orders and the remote data
\* determine, whatever the order in which the evaluations ran and completed
SummaryFixedByData ==
    Summarised
        => LET v == VerdictsOf(Len(orders))
               evaluated == {i \in DOMAIN orders : v[i].pc = "returned"}
               denied == {i \in evaluated : ~v[i].result.can_resend
                                            /\ v[i].result.error = None}
               reasons == {v[i].result.validation_reason : i \in denied}
           IN /\ {results[k] : k \in 1..Len(results)} = evaluated
              /\ Len(results) = Cardinality(evaluated)
              /\ \A i \in evaluated : SameVerdict(heap[i], v[i].result)
              /\ main.summary.total = Cardinality(evaluated)
              /\ main.summary.approved
                     = Cardinality({i \in evaluated : v[i].result.can_resend})
              /\ main.summary.blocked = Cardinality(denied)
              /\ main.summary.errors
                     = Cardinality({i \in evaluated : v[i].result.error # None})
              /\ main.summary.bloqueio_counts
                     = IF denied = {} THEN <<>>
                       ELSE [r \in reasons |->
                               Cardinality({i \in denied :
                                   v[i].result.validation_reason = r})]

\* the future the loop body runs on in this step, if any
YieldedNow(i) == i \notin yielded /\ i \in yielded'

C14_BoundedPoolEvaluatesOnce ==
    /\ Cardinality(Running) <= max_workers
    /\ \A i \in DOMAIN orders :
          /\ pool.runs[i] <= 1
          /\ fut[i] # "queued" => pool.runs[i] = 1
          /\ BatchOver => pool.runs[i] = 1 /\ i \in Completed

\* the pool is full while a submitted call waits in the queue
C14_Witness ==
    /\ Cardinality(Running) = max_workers
    /\ \E i \in DOMAIN fut : fut[i] = "queued"

\* ------------------------------------------------------------------ C15
\* the step labels validate_order assigns, one per stage
StageNames ==
    {"1. Order query", "1. Canceled status check", "2. V041 error detection",
     "2.1. V041 - Multiple active orders", "2.1. V041 - No canceled orders",
     "2.1. V041 - No credit memo", "2.1. V041 - Ignored, validating revenue model",
     "2.2. Other error detected", "3. No errors, validating revenue model"}

\* C15: every result validate_order returns with can_resend = false, a denial
\* or a query failure from whichever exit, carries a non-empty reason and a
\* non-empty step that is the label of one of the stages.
C15_DenialCarriesReasonAndStep ==
    (Returned /\ ~ev.result.can_resend)
        => /\ ev.result.validation_reason # <<>>
           /\ \A k \in 1..Len(ev.result.validation_reason) :
                  ev.result.validation_reason[k] # ""
           /\ ev.result.validation_step # ""
           /\ ev.result.validation_step \in StageNames

\* a denial from the exit for a missing article id in the revenue stage
C15_Witness ==
    /\ Returned /\ ~ev.result.can_resend
    /\ ev.result.validation_step = "3. No errors, validating revenue model"
    /\ NoProductFetch
    /\ ev.result.validation_reason # <<>>

\* ------------------------------------------------------------------ C16
\* an evaluation that returns creates the record of its own order only
OwnRecordCreated ==
    \A i \in DOMAIN heap' \ DOMAIN heap :
        /\ fut[i] = "running"
        /\ heap'[i].order_id = orders[i].order_id
        /\ heap'[i].context = orders[i].context

\* C16 as stated: once validate_order has returned a verdict record, no later
\* step of the run changes any of its fields, and an evaluation writes no
\* record but its own.
C16_ImmutableOnceReturned ==
    [][/\ OwnRecordCreated
       /\ \A i \in DOMAIN heap : i \in DOMAIN heap' /\ heap'[i] = heap[i]]_vars

\* C16, amended: once validate_order has returned a verdict record, no later
\* step changes any of its fields but resend_status and resend_error, and
\* those only in resend_orders_batch, on the record of the order being posted;
\* an evaluation writes no record but its own.
C16_OnlyResendOutcomeWritten ==
    [][/\ OwnRecordCreated
       /\ \A i \in DOMAIN heap :
             /\ i \in DOMAIN heap'
             /\ SameVerdict(heap'[i], heap[i])
             /\ heap'[i] # heap[i]
                    => main.pc = "resend" /\ i = main.to_resend[main.sent + 1]]_vars

\* a returned record carries the outcome of a resend, its verdict as returned
C16_Witness ==
    \E i \in DOMAIN heap :
        /\ heap[i].resend_status = Some("failed")
        /\ heap[i].resend_error # None
        /\ SameVerdict(heap[i], VerdictOf(i).result)

\* ------------------------------------------------------------------ C17
\* C17: a result with can_resend = true is a returned one for which the order
\* was fetched and no query failure is marked, the status is not the canceled
\* one, the article id and the revenue model are non-empty, the product was
\* fetched and the rule set allowed, and either no error was found in the
\* order's history or the error is V041 with no not-canceled sibling and a
\* credit memo on a canceled sibling.
C17_ApprovalInvariant ==
    ev.result.can_resend
        => /\ Returned
           /\ Len(ev.calls) >= 2
           /\ ev.calls[1] = Call("get_order_details", THIS_ORDER, <<>>)
           /\ ev.calls[Len(ev.calls)].fn = "get_product_details"
           /\ ev.result.error = None
           /\ ev.result.order_status # Some(CANCELED)
           /\ ~SeqFalsy(ev.result.article_id)
           /\ ~StrFalsy(ev.result.revenue_model)
           /\ ev.rules # <<>>
           /\ RuleVerdict(ev.result, Val(ev.result.revenue_model))[1]
           /\ \/ /\ ~ev.result.has_error
                 /\ ~ev.result.is_v041_error
                 /\ ev.result.validation_step = "3. No errors, validating revenue model"
              \/ /\ ev.result.has_error
                 /\ ev.result.error_code = Some(S_V041)
                 /\ ev.result.is_v041_error
                 /\ ev.result.other_orders # <<>>
                 /\ ev.result.other_orders_not_canceled = 0
                 /\ ev.result.canceled_order_has_credit_memo = Some(TRUE)

\* an approval on the V041 path: the error was waived for a credit memo
C17_Witness ==
    /\ Returned /\ ev.result.can_resend
    /\ ev.result.is_v041_error
    /\ ev.result.canceled_order_has_credit_memo = Some(TRUE)

\* ------------------------------------------------------------------ C18
\* the entries of the sibling list the claim counts as not canceled
CountedNotCanceled(other_orders) ==
    {i \in 1..Len(other_orders) :
        /\ other_orders[i].orderUniqueId.text # THIS_ORDER
        /\ \/ other_orders[i].orderStatus # CANCELED
           \/ other_orders[i].inCancelledState = FALSE}
\* the entries that are the current order itself, its id a string or a number
OwnEntries(other_orders) ==
    {i \in 1..Len(other_orders) : other_orders[i].orderUniqueId.text = THIS_ORDER}

\* C18: of a non-empty sibling list, the entries counted as not canceled are
\* exactly those whose id differs from the current order's as a string and
\* whose status is not the canceled one or whose flag is missing or false; a
\* sibling with the canceled status and no flag so forces the "multiple active
\* orders" deny, and entries for the current order are never counted.
C18_NotCanceledCount ==
    (SiblingsAnswer /\ net.data # <<>>)
        => /\ ev.result.other_orders_not_canceled
                  = Cardinality(CountedNotCanceled(net.data))
           /\ OwnEntries(net.data) = DOMAIN net.data
                  => ev.result.other_orders_not_canceled = 0
           /\ (\E i \in DOMAIN net.data :
                  /\ net.data[i].orderUniqueId.text # THIS_ORDER
                  /\ net.data[i].orderStatus = CANCELED
                  /\ ~net.data[i].inCancelledState)
                  => /\ Returned /\ ~ev.result.can_resend
                     /\ ev.result.validation_step
                            = "2.1. V041 - Multiple active orders"

\* the current order listed as active under a numeric id, next to a sibling
\* with the canceled status and no flag: one counted, denied
C18_Witness ==
    /\ SiblingsAnswer
    /\ net.data = <<Sibling(IdInt("101"), "OrderCompleted", FALSE),
                    Sibling(IdStr("102"), CANCELED, FALSE)>>
    /\ Returned
    /\ ev.result.other_orders_not_canceled = 1
    /\ ev.result.validation_step = "2.1. V041 - Multiple active orders"

\* ------------------------------------------------------------------ C19
\* the canceled partition of the sibling list, and those of it that have an id
CanceledSiblings ==
    SelectSeq(ev.result.other_orders,
              LAMBDA o : o.orderUniqueId.text # THIS_ORDER /\ o.orderStatus = CANCELED)
Fetchable == SelectSeq(CanceledSiblings, LAMBDA o : o.orderUniqueId.type # "none")
\* the sibling list is in, no sibling is not canceled, some sibling is canceled
Scanning ==
    /\ Len(ev.calls) >= 2
    /\ ev.result.is_v041_error
    /\ ev.result.other_orders_not_canceled = 0
    /\ CanceledSiblings # <<>>
\* the fetches of canceled siblings made so far
ScanCalls ==
    SelectSeq(SubSeq(ev.calls, 3, Len(ev.calls)),
              LAMBDA c : c.fn = "get_order_details")
ScanAnswer == net.state = "answered" /\ net.of = "scan"
HasCreditMemo(d) ==
    d.kind = "dict" /\ d.details /\ check_credit_memo_in_history(d.orderHistory)
DeniedNoCreditMemo ==
    /\ Returned /\ ~ev.result.can_resend
    /\ ev.result.canceled_order_has_credit_memo = Some(FALSE)
    /\ ev.result.validation_step = "2.1. V041 - No credit memo"
    /\ ev.result.validation_reason =
           <<"V041 error: canceled order without credit memo - requires VIAX review">>
    /\ NoProductFetch

\* C19: with no not-canceled sibling and a non-empty canceled partition, the
\* canceled siblings that have an id are fetched one after the other in listed
\* order; the scan stops at the first whose history has a credit memo, and
\* evaluation then goes on to the revenue stage; a sibling whose fetch fails,
\* that lacks order details or has no credit memo lets the scan go on with the
\* next; when none is left the order is denied for "canceled order without
\* credit memo"; the revenue stage is reached only with a credit memo found.
C19_ScanInOrderStopsAtMemo ==
    Scanning
        => /\ Len(ScanCalls) <= Len(Fetchable)
           /\ \A k \in 1..Len(ScanCalls) :
                  /\ ev.calls[2 + k] = ScanCalls[k]
                  /\ ScanCalls[k].order = Fetchable[k].orderUniqueId.text
           /\ ev.result.canceled_order_has_credit_memo = Some(TRUE)
                  => /\ ev.pc \in {"product", "returned"}
                     /\ ev.result.validation_step
                            = "2.1. V041 - Ignored, validating revenue model"
           /\ ScanAnswer
                  => IF HasCreditMemo(net.data)
                     THEN /\ ev.pc = "product"
                          /\ ev.result.canceled_order_has_credit_memo = Some(TRUE)
                     ELSE IF Len(ScanCalls) < Len(Fetchable)
                     THEN /\ ev.pc = "scan"
                          /\ ev.canceled_orders[ev.idx] = Fetchable[Len(ScanCalls) + 1]
                          /\ ev.result.canceled_order_has_credit_memo = None
                     ELSE DeniedNoCreditMemo
           /\ (SiblingsAnswer /\ Fetchable = <<>>) => DeniedNoCreditMemo
           /\ (ev.pc = "product" \/ ~NoProductFetch)
                  => ev.result.canceled_order_has_credit_memo = Some(TRUE)
           /\ (Returned /\ ev.result.canceled_order_has_credit_memo # Some(TRUE))
                  => DeniedNoCreditMemo

\* two canceled siblings: the first has a credit memo, the second is never
\* fetched and the evaluation goes on to fetch the product
C19_Witness ==
    /\ Scanning /\ ScanAnswer
    /\ Len(Fetchable) = 2
    /\ Len(ScanCalls) = 1
    /\ HasCreditMemo(net.data)
    /\ ev.pc = "product"

\* ------------------------------------------------------------------ C20
\* the first error event of the fetched order's history has the code V041
FirstErrorIsV041 ==
    \E i \in 1..Len(net.data.orderHistory) :
        /\ FirstErrorAt(net.data.orderHistory, i)
        /\ ErrorCode(net.data.orderHistory[i].eventDescription) = Some(S_V041)
\* the order response has no article section, or one without an article id
\* or with an empty one
ArticleIdAbsent ==
    \/ net.data.article.sec = "absent"
    \/ net.data.article.sec = "dict" /\ net.data.article.id \in {None, Some(<<>>)}
DeniedAtV041(reason) ==
    /\ Returned /\ ~ev.result.can_resend
    /\ ev.result.is_v041_error
    /\ ev.result.validation_step = "2. V041 error detection"
    /\ ev.result.validation_reason = <<reason>>
    /\ NoProductFetch /\ ev.rules = <<>>

\* C20: when the error code is V041 and the article id is absent, the
\* evaluation returns can_resend = false with the reason naming the missing
\* article id, having made no remote call but the fetch of the order; when the
\* sibling-set fetch returns nothing, it returns can_resend = false with the
\* reason that the other orders could not be verified, having fetched no
\* sibling's history and no product.
C20_V041FailsClosed ==
    /\ (FetchedNotCanceled /\ FirstErrorIsV041 /\ ArticleIdAbsent)
           => /\ DeniedAtV041("Erro V041 detected but article_id not available")
              /\ Len(ev.calls) = 1
              /\ NoSiblingFetch
    /\ (SiblingsAnswer /\ net.data = <<>>)
           => /\ DeniedAtV041("V041 error: could not verify other orders for the article")
              /\ Len(ev.calls) = 2
              /\ ev.calls[2].fn = "get_multiple_orders"
              /\ ev.result.other_orders = <<>>

\* a V041 error on an order whose article id is the empty string: denied after
\* the fetch of the order alone
C20_Witness ==
    /\ FetchedNotCanceled /\ FirstErrorIsV041
    /\ net.data.article.id = Some(<<>>)
    /\ DeniedAtV041("Erro V041 detected but article_id not available")
    /\ Len(ev.calls) = 1

\* ------------------------------------------------------------------ C21
\* the reason of the deny for the error event: the code, or the placeholder
\* for a code that is absent or empty, and the description
OtherErrorReason(event) ==
    LET code == ErrorCode(event.eventDescription)
    IN <<"Error detected: ">>
           \o (IF code = None \/ code = Some(<<>>) THEN <<"DESCONHECIDO">> ELSE Val(code))
           \o <<" - ">> \o event.eventDescription

NoErrorInHistory ==
    \A i \in 1..Len(net.data.orderHistory) : ~IsErrorEvent(net.data.orderHistory[i])
\* a deny of the revenue stage: the step is the one the path entered it with
\* and the rule set was not called
DeniedAtRevenueStage(reason) ==
    /\ Returned /\ ~ev.result.can_resend
    /\ ev.result.validation_reason = <<reason>>
    /\ ev.result.validation_step
           = IF ev.result.is_v041_error
             THEN "2.1. V041 - Ignored, validating revenue model"
             ELSE "3. No errors, validating revenue model"
    /\ ev.rules = <<>>
\* the product response carries no journal object with a non-empty revenue model
NoRevenueModel(d) ==
    d.journal # "dict" \/ d.revenueModel = None \/ d.revenueModel = Some("")

\* C22: at the revenue stage an absent or empty article id denies without a
\* product fetch, a failed or empty product fetch denies, and a product
\* response without a journal object or without a non-empty revenue model
\* denies, on the no-error path and on the V041-waived path alike; in none of
\* these is validate_revenue_model_rules called, and it is called only after a
\* product response that carries a revenue model.
C22_MissingPrerequisiteDenies ==
    /\ (FetchedNotCanceled /\ NoErrorInHistory /\ ArticleIdAbsent)
           => /\ DeniedAtRevenueStage(
                     "article_id not available para validacao de revenue model")
              /\ NoProductFetch
              /\ Len(ev.calls) = 1
    /\ (ProductAnswer /\ net.data.kind \in {"none", "empty"})
           => DeniedAtRevenueStage("Could not query productDetails to get revenue model")
    /\ (ProductAnswer /\ net.data.kind = "dict" /\ NoRevenueModel(net.data))
           => DeniedAtRevenueStage("Revenue model not found em productDetails")
    /\ ev.rules # <<>>
           => /\ ProductAnswer
              /\ net.data.kind = "dict" /\ ~NoRevenueModel(net.data)
              /\ ~SeqFalsy(ev.result.article_id)

\* on the V041-waived path the product response has an empty revenue model:
\* denied, the rule set not called
C22_Witness ==
    /\ ProductAnswer
    /\ ev.result.is_v041_error
    /\ ev.result.canceled_order_has_credit_memo = Some(TRUE)
    /\ net.data = Product("dict", "dict", Some(""))
    /\ DeniedAtRevenueStage("Revenue model not found em productDetails")

\* ------------------------------------------------------------------ C23
\* the positions in the log of remote calls of the calls of one function
CallsOf(fn) == {i \in 1..Len(ev.calls) : ev.calls[i].fn = fn}
\* the stages in their order; the scan of the canceled siblings is part of
\* V041 resolution
StageRank(pc) ==
    CASE pc = "order" -> 1
      [] pc = "siblings" -> 2
      [] pc = "scan" -> 3
      [] pc = "product" -> 4
      [] OTHER -> 5
EarlyExitSteps ==
    {"1. Order query", "1. Canceled status check", "2. V041 error detection",
     "2.1. V041 - Multiple active orders", "2.1. V041 - No canceled orders",
     "2.1. V041 - No credit memo", "2.2. Other error detected"}

\* the remote calls made so far are in stage order
CallsInStageOrder ==
    /\ Len(ev.calls) >= 1
           => /\ ev.calls[1] = Call("get_order_details", THIS_ORDER, <<>>)
              /\ \A i \in 2..Len(ev.calls) : ev.calls[i].order # THIS_ORDER
    /\ Cardinality(CallsOf("get_multiple_orders")) <= 1
    /\ CallsOf("get_multiple_orders") \subseteq {2}
    /\ CallsOf("get_multiple_orders") # {}
           => /\ ev.result.order_status # Some(CANCELED)
              /\ ev.result.error_code = Some(S_V041)
    /\ \A i \in CallsOf("get_order_details") :
           i > 1 => /\ CallsOf("get_multiple_orders") = {2}
                    /\ \A j \in 3..i : ev.calls[j].fn = "get_order_details"
    /\ Cardinality(CallsOf("get_product_details")) <= 1
    /\ CallsOf("get_product_details") \subseteq {Len(ev.calls)}
    /\ (Returned /\ ev.result.validation_step \in EarlyExitSteps) => NoProductFetch
    /\ ev.pc = "raised" => NoProductFetch

\* C23: within one evaluation the order itself is fetched exactly once and
\* first; the sibling set is fetched at most once, as the second call, with
\* the status not canceled and the error code V041; siblings are fetched only
\* after it; the product is fetched at most once, as the last call, and never
\* in an evaluation that returned at an earlier stage; the evaluation never
\* goes back to an earlier stage and never takes back a call it made.
C23_StagesInStrictOrder ==
    /\ []CallsInStageOrder
    /\ [][/\ StageRank(ev'.pc) >= StageRank(ev.pc)
          /\ (ev' # ev /\ ev.pc # "scan") => StageRank(ev'.pc) > StageRank(ev.pc)
          /\ Len(ev'.calls) >= Len(ev.calls)
          /\ SubSeq(ev'.calls, 1, Len(ev.calls)) = ev.calls]_vars

\* an evaluation that went through every stage: the order, the sibling set,
\* two canceled siblings and the product
C23_Witness ==
    /\ Returned
    /\ Len(ev.calls) = 5
    /\ CallsOf("get_order_details") = {1, 3, 4}
    /\ CallsOf("get_multiple_orders") = {2}
    /\ CallsOf("get_product_details") = {5}


\* ---------------------------------------------------------------- C24
\* the event is an object whose type contains "error" in any letter case
TypeMentionsError(event) ==
    event.dict /\ StrContains(StrLower(event.eventType), S_error)
\* position i holds the first such event of history h
FirstMention(h, i) ==
    /\ i \in 1..Len(h)
    /\ TypeMentionsError(h[i])
    /\ \A j \in 1..(i - 1) : ~TypeMentionsError(h[j])
HistoryChecked == history_out # <<>>

\* C24: the result of check_error_in_history is fixed by the first event whose
\* type contains "error" in any letter case: has_error is true exactly when
\* such an event exists, the code and the description are the ones of that
\* first event, and two histories that agree up to it give the same result
\* whatever follows it.
C24_FirstErrorEventDecides ==
    HistoryChecked =>
        /\ history_out[1] <=> \E i \in 1..Len(history_in) : TypeMentionsError(history_in[i])
        /\ ~history_out[1] => history_out = <<FALSE, None, None>>
        /\ \A i \in 1..Len(history_in) :
               FirstMention(history_in, i) =>
                   /\ history_out[3] = Some(history_in[i].eventDescription)
                   /\ history_out = check_error_in_history(<<history_in[i]>>)
                   /\ \A later \in SeqsUpTo(HistoryEvents, 1) :
                          check_error_in_history(SubSeq(history_in, 1, i) \o later)
                              = history_out

\* an upper-case error event with a code is followed by a V041 event: the
\* result is the first one's
C24_Witness ==
    /\ HistoryChecked
    /\ history_in = <<E_OTHER, E_V041>>
    /\ history_out = <<TRUE, Some(<<"E", "1">>), Some(E_OTHER.eventDescription)>>


\* ---------------------------------------------------------------- C25
HasColon(d) == \E k \in 1..Len(d) : d[k] = ":"
\* t is the text of d before its first colon
BeforeFirstColon(d, t) ==
    \E k \in 1..Len(d) :
        /\ d[k] = ":"
        /\ \A j \in 1..(k - 1) : d[j] # ":"
        /\ t = SubSeq(d, 1, k - 1)
\* c is t without its leading and trailing blanks
Trimmed(t, c) ==
    \E a, b \in 0..Len(t) :
        /\ a + b <= Len(t)
        /\ c = SubSeq(t, a + 1, Len(t) - b)
        /\ \A j \in 1..a : t[j] = " "
        /\ \A j \in (Len(t) - b + 1)..Len(t) : t[j] = " "
        /\ c # <<>> => c[1] # " " /\ c[Len(c)] # " "
\* the description of the first error event of the checked history
ReportedDescription == Val(history_out[3])
ErrorReported == HistoryChecked /\ history_out[1]

\* C25 as stated: the code is "V041" when the description contains it, else
\* the text before the first colon when that text is shorter than 10
\* characters, else absent.
C25_CodeIsTextBeforeColon ==
    ErrorReported =>
        LET d == ReportedDescription
            code == history_out[2]
        IN /\ StrContains(d, S_V041) => code = Some(S_V041)
           /\ (~StrContains(d, S_V041) /\ HasColon(d)) =>
                  \A t \in {SubSeq(d, 1, n) : n \in 0..Len(d)} :
                      BeforeFirstColon(d, t) =>
                          code = IF Len(t) < 10 THEN Some(t) ELSE None
           /\ (~StrContains(d, S_V041) /\ ~HasColon(d)) => code = None

\* C25, amended: the code is "V041" when the description contains it, else
\* the text before the first colon with its surrounding blanks removed when
\* that trimmed text is shorter than 10 characters, else absent; has_error is
\* true in every case.
C25_CodeIsTrimmedTextBeforeColon ==
    ErrorReported =>
        LET d == ReportedDescription
            code == history_out[2]
        IN /\ StrContains(d, S_V041) => code = Some(S_V041)
           /\ (~StrContains(d, S_V041) /\ HasColon(d)) =>
                  \A t \in {SubSeq(d, 1, n) : n \in 0..Len(d)} :
                      \A c \in {SubSeq(t, m, n) : m \in 1..(Len(t) + 1), n \in 0..Len(t)} :
                          (BeforeFirstColon(d, t) /\ Trimmed(t, c)) =>
                              code = IF Len(c) < 10 THEN Some(c) ELSE None
           /\ (~StrContains(d, S_V041) /\ ~HasColon(d)) => code = None

\* the text before the colon has 10 characters and 9 once trimmed: it is the code
C25_Witness ==
    /\ ErrorReported
    /\ history_in = <<E_INFO, E_PAD>>
    /\ history_out[2] = Some(<<"A", "B", "C", "D", "E", "F", "G", "H", "I">>)


\* ---------------------------------------------------------------- C26
\* an id with only a leading "PD" removed
WithoutLeadingPD(id) ==
    IF Len(id) >= 2 /\ SubSeq(id, 1, 2) = <<"P", "D">>
    THEN SubSeq(id, 3, Len(id))
    ELSE id

\* C26: the key of the orders-of-the-article query is the article id with only
\* a leading "PD" removed; a "PD" elsewhere in the id is kept.
C26_OnlyLeadingPDRemoved ==
    \A i \in CallsOf("get_multiple_orders") :
        ev.calls[i].article = WithoutLeadingPD(Val(ev.result.article_id))


\* ---------------------------------------------------------------- C27
\* the rule set answered allow with a reason that says the amount is above zero
AllowedAsPositive ==
    /\ rules_out # <<>>
    /\ rules_out[1]
    /\ rules_out[2][1] \in {"OO with totalChargedAmount > 0 ($",
                            "OA + Invoice with totalChargedAmount > 0 ($"}

\* C27: for OO with any payment method and for OA paid by Invoice the rule set
\* allows with the reason "... with totalChargedAmount > 0" only when the
\* charged amount is strictly greater than zero.
C27_PositiveReasonOnlyAboveZero ==
    AllowedAsPositive => rules_in.total_charged > 0


\* ---------------------------------------------------------------- C28
\* the entries of the sibling list that are not the current order
OtherSiblings(other_orders) ==
    SelectSeq(other_orders, LAMBDA o : o.orderUniqueId.text # THIS_ORDER)
DeniedNoCanceledOrder ==
    /\ Returned /\ ~ev.result.can_resend
    /\ ev.result.validation_step = "2.1. V041 - No canceled orders"
    /\ ev.result.validation_reason = <<"V041 error: no canceled order found">>

\* C28: of a non-empty sibling list, V041 resolution denies with "no canceled
\* order found" exactly when the list holds no entry other than the current
\* order; whenever no sibling counts as not canceled, every sibling other than
\* the current order has the canceled status, and the canceled partition that
\* is scanned is the list of all siblings other than the current order.
C28_NoCanceledMeansNoOther ==
    (SiblingsAnswer /\ net.data # <<>>) =>
        /\ DeniedNoCanceledOrder <=> OtherSiblings(net.data) = <<>>
        /\ ev.result.other_orders_not_canceled = 0 =>
               /\ \A i \in 1..Len(OtherSiblings(net.data)) :
                      OtherSiblings(net.data)[i].orderStatus = CANCELED
               /\ ev.pc = "scan" => ev.canceled_orders = OtherSiblings(net.data)
        /\ OtherSiblings(net.data) = <<>> => ev.result.other_orders_not_canceled = 0

\* the list holds the current order alone, canceled: denied, nothing scanned
C28_Witness ==
    /\ SiblingsAnswer
    /\ net.data = <<Sibling(IdStr("101"), CANCELED, TRUE)>>
    /\ DeniedNoCanceledOrder
    /\ ev.result.other_orders_not_canceled = 0
    /\ Len(ev.calls) = 2

====
